---- MODULE Spec2Model ----
(***************************************************************************)
(* A model of scripts/xr_loopback_set.py: the loopback change planner, the *)
(* per-interface state probe, the rollback synthesizer, the command-file   *)
(* codec and the control flow of main().                                   *)
(*                                                                         *)
(* Text is a sequence of tokens.  A token is a string: a keyword           *)
(* ("interface", "description", "no", "mtu"), an identifier or value       *)
(* ("Loopback1", "old"), a digit, or one of the separators " " (blank),    *)
(* "\n" and "\r" (line terminators).  "interface Loopback1" is therefore   *)
(* <<"interface", " ", "Loopback1">>, and str.startswith("interface ") is  *)
(* a test on the first two tokens.                                         *)
(***************************************************************************)
EXTENDS Integers, Sequences, FiniteSets, TLC

VARIABLES
    args,           \* argparse.Namespace of the run
    rows,           \* the CSV data rows (csv mode) or the positional/--description pair
    pc,             \* position of main()
    session,        \* the ConnectHandler session: "closed" or "open"
    device,         \* the router: running and candidate configuration per interface
    devlog,         \* what was sent to the router, in order
    target_pairs,   \* main: target_pairs
    planned_cmds,   \* main: planned_cmds
    before_states,  \* main: before_states, an insertion-ordered dict
    rb_cmds,        \* main: rb_cmds
    cmds,           \* main: cmds, the commands loaded by --apply-rollback
    file,           \* the rollback command file on disk (text), or NoFile
    text,           \* the router's answer to the last per-interface query
    snapshot,       \* the last value returned by get_interface_state
    pre_device      \* the running configuration when the run began

vars == <<args, rows, pc, session, device, devlog, target_pairs, planned_cmds,
          before_states, rb_cmds, cmds, file, text, snapshot, pre_device>>

----------------------------------------------------------------------------
(* Bounds of the model *)

MaxBatch == 2
MaxCmds == 2
MaxSubLines == 3

----------------------------------------------------------------------------
(* Python str primitives over token sequences *)

None == <<>>
Some(v) == <<v>>

IsSpace(t) == t \in {" ", "\n", "\r"}

RECURSIVE LStrip(_)
LStrip(s) == IF s # <<>> /\ IsSpace(Head(s)) THEN LStrip(Tail(s)) ELSE s

RECURSIVE RStrip(_)
RStrip(s) ==
    IF s # <<>> /\ IsSpace(s[Len(s)]) THEN RStrip(SubSeq(s, 1, Len(s) - 1)) ELSE s

Strip(s) == RStrip(LStrip(s))

RECURSIVE RStripNL(_)
RStripNL(s) ==
    IF s # <<>> /\ s[Len(s)] = "\n" THEN RStripNL(SubSeq(s, 1, Len(s) - 1)) ELSE s

StartsWith(s, p) == Len(s) >= Len(p) /\ SubSeq(s, 1, Len(p)) = p

RECURSIVE Join(_, _)
Join(sep, lines) ==
    IF lines = <<>> THEN <<>>
    ELSE IF Len(lines) = 1 THEN lines[1]
    ELSE lines[1] \o sep \o Join(sep, Tail(lines))

\* str.splitlines(): cut at "\n", "\r" and "\r\n"; terminators dropped; no
\* final empty line.  cur is the line being collected.
RECURSIVE SplitFrom(_, _)
SplitFrom(s, cur) ==
    IF s = <<>> THEN (IF cur = <<>> THEN <<>> ELSE <<cur>>)
    ELSE IF Head(s) = "\r" /\ Len(s) >= 2 /\ s[2] = "\n"
         THEN <<cur>> \o SplitFrom(Tail(Tail(s)), <<>>)
    ELSE IF Head(s) \in {"\n", "\r"} THEN <<cur>> \o SplitFrom(Tail(s), <<>>)
    ELSE SplitFrom(Tail(s), Append(cur, Head(s)))

splitlines(s) == SplitFrom(s, <<>>)

\* Text-mode read with universal newlines: "\r\n" and "\r" arrive as "\n".
RECURSIVE UniversalNewlines(_)
UniversalNewlines(s) ==
    IF s = <<>> THEN <<>>
    ELSE IF Head(s) = "\r" /\ Len(s) >= 2 /\ s[2] = "\n"
         THEN <<"\n">> \o UniversalNewlines(Tail(Tail(s)))
    ELSE IF Head(s) = "\r" THEN <<"\n">> \o UniversalNewlines(Tail(s))
    ELSE <<Head(s)>> \o UniversalNewlines(Tail(s))

\* Iterating a text file: each line keeps its "\n"; the last may lack one.
RECURSIVE FileLinesFrom(_, _)
FileLinesFrom(s, cur) ==
    IF s = <<>> THEN (IF cur = <<>> THEN <<>> ELSE <<cur>>)
    ELSE IF Head(s) = "\n" THEN <<Append(cur, "\n")>> \o FileLinesFrom(Tail(s), <<>>)
    ELSE FileLinesFrom(Tail(s), Append(cur, Head(s)))

FileLines(s) == FileLinesFrom(UniversalNewlines(s), <<>>)

----------------------------------------------------------------------------
(* normalize_loopback *)

Digits == {"0", "1", "2", "3", "4", "5", "6", "7", "8", "9"}

DigitVal(t) ==
    CASE t = "0" -> 0 [] t = "1" -> 1 [] t = "2" -> 2 [] t = "3" -> 3
      [] t = "4" -> 4 [] t = "5" -> 5 [] t = "6" -> 6 [] t = "7" -> 7
      [] t = "8" -> 8 [] t = "9" -> 9

isdigit(s) == s # <<>> /\ \A i \in 1..Len(s) : s[i] \in Digits

RECURSIVE IntFrom(_, _)
IntFrom(s, acc) == IF s = <<>> THEN acc ELSE IntFrom(Tail(s), 10 * acc + DigitVal(Head(s)))

int(s) == IntFrom(s, 0)

\* n.lower().startswith("loopback"): the prefix token in any letter case
IsLoopbackPrefix(t) == t \in {"loopback", "Loopback", "LOOPBACK"}

Raised == [ok |-> FALSE, value |-> <<>>]
Returned(v) == [ok |-> TRUE, value |-> v]

normalize_loopback(name_or_id) ==
    LET n == Strip(name_or_id) IN
    IF n # <<>> /\ IsLoopbackPrefix(Head(n))
    THEN LET suffix == Tail(n) IN
         IF ~isdigit(suffix) THEN Raised
         ELSE Returned("Loopback" \o ToString(int(suffix)))
    ELSE IF ~isdigit(n) THEN Raised
    ELSE Returned("Loopback" \o ToString(int(n)))

----------------------------------------------------------------------------
(* parse_csv_pairs and build_commands_bulk *)

RECURSIVE ParseRows(_, _)
ParseRows(rs, pairs) ==
    IF rs = <<>> THEN (IF pairs = <<>> THEN Raised ELSE Returned(pairs))
    ELSE LET lb   == normalize_loopback(Head(rs).loopback)
             desc == Strip(Head(rs).description)
         IN  IF ~lb.ok THEN Raised
             ELSE IF desc = <<>> THEN Raised
             ELSE ParseRows(Tail(rs), Append(pairs, <<lb.value, desc>>))

RECURSIVE SkipBadRows(_, _)
SkipBadRows(rs, pairs) ==
    IF rs = <<>> THEN (IF pairs = <<>> THEN Raised ELSE Returned(pairs))
    ELSE LET lb   == normalize_loopback(Head(rs).loopback)
             desc == Strip(Head(rs).description)
         IN  IF ~lb.ok \/ desc = <<>> THEN SkipBadRows(Tail(rs), pairs)
             ELSE SkipBadRows(Tail(rs), Append(pairs, <<lb.value, desc>>))

ParseSkippingBadRows(csv_rows) == SkipBadRows(csv_rows, <<>>)

parse_csv_pairs(csv_rows) == ParseRows(csv_rows, <<>>)

RECURSIVE build_commands_bulk(_)
build_commands_bulk(pairs) ==
    IF pairs = <<>> THEN <<>>
    ELSE << <<"interface", " ", Head(pairs)[1]>>,
            <<"description", " ">> \o Head(pairs)[2] >>
         \o build_commands_bulk(Tail(pairs))

----------------------------------------------------------------------------
(* get_interface_state: parse the answer to                                *)
(* "show running-config interface <loopback>"                              *)

\* lines = [ln.rstrip() for ln in text.splitlines() if ln.strip()]
RECURSIVE NonBlankRStripped(_)
NonBlankRStripped(lns) ==
    IF lns = <<>> THEN <<>>
    ELSE IF Strip(Head(lns)) = <<>> THEN NonBlankRStripped(Tail(lns))
    ELSE <<RStrip(Head(lns))>> \o NonBlankRStripped(Tail(lns))

DescriptionFirstWins(description, raw) ==
    IF description = None /\ StartsWith(raw, <<"description", " ">>)
    THEN Some(Strip(SubSeq(raw, 3, Len(raw))))
    ELSE description

\* the body of "for ln in lines[1:]": the value of description after a line
ParseDescription(description, raw) ==
    IF StartsWith(raw, <<"description", " ">>)
    THEN Some(Strip(SubSeq(raw, 3, Len(raw))))
    ELSE description

RECURSIVE StanzaLoop(_, _, _)
StanzaLoop(lns, description, sub_lines) ==
    IF lns = <<>>
    THEN [exists |-> TRUE, description |-> description, lines |-> sub_lines]
    ELSE LET raw == LStrip(Head(lns)) IN
         StanzaLoop(Tail(lns), ParseDescription(description, raw), Append(sub_lines, raw))

get_interface_state(answer) ==
    LET lns == NonBlankRStripped(splitlines(answer)) IN
    IF lns # <<>> /\ StartsWith(lns[1], <<"interface", " ">>)
    THEN StanzaLoop(Tail(lns), None, <<>>)
    ELSE [exists |-> FALSE, description |-> None, lines |-> <<>>]

----------------------------------------------------------------------------
(* is_empty_loopback *)

is_empty_loopback(sub_lines) ==
    \A i \in 1..Len(sub_lines) :
        sub_lines[i] = <<>> \/ StartsWith(sub_lines[i], <<"description", " ">>)

----------------------------------------------------------------------------
(* before_states: a Python dict, a sequence of <<key, value>> in insertion   *)
(* order; assigning an existing key keeps its place                          *)

DictKeys(d) == {d[i][1] : i \in 1..Len(d)}

DictGet(d, k) == d[CHOOSE i \in 1..Len(d) : d[i][1] = k][2]

DictSet(d, k, v) ==
    IF k \in DictKeys(d)
    THEN [i \in 1..Len(d) |-> IF d[i][1] = k THEN <<k, v>> ELSE d[i]]
    ELSE Append(d, <<k, v>>)

----------------------------------------------------------------------------
(* generate_rollback_for_pairs *)

BlockWithoutExistsCheck(st, lb, delete_empty_loopbacks) ==
    IF delete_empty_loopbacks /\ is_empty_loopback(st.lines)
    THEN << <<"no", " ", "interface", " ", lb>> >>
    ELSE IF st.description # None /\ st.description[1] # <<>>
         THEN << <<"interface", " ", lb>>, <<"description", " ">> \o st.description[1] >>
         ELSE << <<"interface", " ", lb>>, <<"no", " ", "description">> >>

BlockWithoutOpen(st, lb, delete_empty_loopbacks) ==
    IF ~st.exists THEN << <<"no", " ", "interface", " ", lb>> >>
    ELSE IF delete_empty_loopbacks /\ is_empty_loopback(st.lines)
    THEN << <<"no", " ", "interface", " ", lb>> >>
    ELSE IF st.description # None /\ st.description[1] # <<>>
         THEN << <<"description", " ">> \o st.description[1] >>
         ELSE << <<"no", " ", "description">> >>

\* the body of "for lb, _new_desc in target_pairs": the commands one pair adds
RollbackBlock(st, lb, delete_empty_loopbacks) ==
    IF ~st.exists THEN << <<"no", " ", "interface", " ", lb>> >>
    ELSE IF delete_empty_loopbacks /\ is_empty_loopback(st.lines)
    THEN << <<"no", " ", "interface", " ", lb>> >>
    ELSE IF st.description # None /\ st.description[1] # <<>>
         THEN << <<"interface", " ", lb>>, <<"description", " ">> \o st.description[1] >>
         ELSE << <<"interface", " ", lb>>, <<"no", " ", "description">> >>

RECURSIVE RollbackInDictOrder(_, _, _)
RollbackInDictOrder(states, pairs, delete_empty_loopbacks) ==
    IF states = <<>> THEN <<>>
    ELSE (IF \E i \in 1..Len(pairs) : pairs[i][1] = Head(states)[1]
          THEN RollbackBlock(Head(states)[2], Head(states)[1], delete_empty_loopbacks)
          ELSE <<>>)
         \o RollbackInDictOrder(Tail(states), pairs, delete_empty_loopbacks)

RECURSIVE generate_rollback_for_pairs(_, _, _)
generate_rollback_for_pairs(states, pairs, delete_empty_loopbacks) ==
    IF pairs = <<>> THEN <<>>
    ELSE RollbackBlock(DictGet(states, Head(pairs)[1]), Head(pairs)[1],
                       delete_empty_loopbacks)
         \o generate_rollback_for_pairs(states, Tail(pairs), delete_empty_loopbacks)

----------------------------------------------------------------------------
(* _save_commands_to_file and _read_commands_from_file *)

NoFile == <<"ENOENT">>

\* f.write("\n".join(cmds) + "\n")
encode(commands) == Join(<<"\n">>, commands) \o <<"\n">>

RECURSIVE KeepNonBlank(_)
KeepNonBlank(lns) ==
    IF lns = <<>> THEN <<>>
    ELSE IF Strip(Head(lns)) = <<>> THEN KeepNonBlank(Tail(lns))
    ELSE <<RStripNL(Head(lns))>> \o KeepNonBlank(Tail(lns))

RECURSIVE KeepNonBlankTrimmed(_)
KeepNonBlankTrimmed(lns) ==
    IF lns = <<>> THEN <<>>
    ELSE IF Strip(Head(lns)) = <<>> THEN KeepNonBlankTrimmed(Tail(lns))
    ELSE <<Strip(Head(lns))>> \o KeepNonBlankTrimmed(Tail(lns))

DecodeTrimming(contents) == KeepNonBlankTrimmed(FileLines(contents))

\* [ln.rstrip("\n") for ln in f if ln.strip()]
decode(contents) == KeepNonBlank(FileLines(contents))

----------------------------------------------------------------------------
(* The router behind conn: what send_command and send_config_set meet.       *)
(* A configuration maps each interface to its stanza: whether it exists, its *)
(* description (None or Some(tokens)) and its other sub-commands.            *)

EntityIds == {"Loopback1", "Loopback2"}

Absent == [exists |-> FALSE, description |-> None, lines |-> <<>>]

Stanzas ==
    {Absent}
    \cup [exists : {TRUE}, description : {None, Some(<<"old">>)},
          lines : {<<>>, << <<"mtu", " ", "9000">> >>}]

RECURSIVE IndentedLines(_)
IndentedLines(lns) ==
    IF lns = <<>> THEN <<>>
    ELSE <<" ">> \o Head(lns) \o <<"\n">> \o IndentedLines(Tail(lns))

\* the answer to "show running-config interface <lb>"
ShowInterface(cfg, lb) ==
    IF lb \notin DOMAIN cfg \/ ~cfg[lb].exists
    THEN <<"%", " ", "No such configuration item(s)", "\n">>
    ELSE <<"interface", " ", lb, "\n">>
         \o (IF cfg[lb].description = None THEN <<>>
             ELSE <<" ", "description", " ">> \o cfg[lb].description[1] \o <<"\n">>)
         \o IndentedLines(cfg[lb].lines)

\* one configuration line entered in config mode; ctx is the interface
\* submode the terminal is in (None or Some(lb))
ConfigLine(st, cmd) ==
    IF Len(cmd) = 3 /\ StartsWith(cmd, <<"interface", " ">>) /\ cmd[3] \in DOMAIN st.cfg
    THEN [cfg |-> IF st.cfg[cmd[3]].exists THEN st.cfg
                  ELSE [st.cfg EXCEPT ![cmd[3]] =
                           [exists |-> TRUE, description |-> None, lines |-> <<>>]],
          ctx |-> Some(cmd[3])]
    ELSE IF Len(cmd) = 5 /\ StartsWith(cmd, <<"no", " ", "interface", " ">>)
            /\ cmd[5] \in DOMAIN st.cfg
    THEN [cfg |-> [st.cfg EXCEPT ![cmd[5]] = Absent], ctx |-> None]
    ELSE IF st.ctx # None /\ StartsWith(cmd, <<"description", " ">>)
            /\ Strip(SubSeq(cmd, 3, Len(cmd))) # <<>>
    THEN [st EXCEPT !.cfg[st.ctx[1]].description = Some(Strip(SubSeq(cmd, 3, Len(cmd))))]
    ELSE IF st.ctx # None /\ cmd = <<"no", " ", "description">>
    THEN [st EXCEPT !.cfg[st.ctx[1]].description = None]
    ELSE st

RECURSIVE ConfigLines(_, _)
ConfigLines(st, commands) ==
    IF commands = <<>> THEN st
    ELSE ConfigLines(ConfigLine(st, Head(commands)), Tail(commands))

\* conn.send_config_set(cmds): the candidate configuration after the batch
send_config_set(cfg, commands) == ConfigLines([cfg |-> cfg, ctx |-> None], commands).cfg

----------------------------------------------------------------------------
(* main(): inputs *)

Row(lb, desc) == [loopback |-> lb, description |-> desc]

\* what a CSV data row or the command line can hold
RawRows ==
    { Row(<<"1">>, <<"new">>),
      Row(<<"Loopback", "0", "2">>, <<" ", "new">>),
      Row(<<"x">>, <<"new">>),
      Row(<<"2">>, <<" ">>) }

\* single mode: the positional loopback or --description may also be missing
SingleRows == RawRows \cup { Row(<<>>, <<"new">>), Row(<<"1">>, <<>>) }

SeqsUpTo(S, n) == UNION {[1..k -> S] : k \in 0..n}

Args ==
    [apply_rollback : BOOLEAN, csv : BOOLEAN, dry_run : BOOLEAN,
     generate_rollback : BOOLEAN, keep_empty_loopbacks : BOOLEAN,
     commit_confirmed : BOOLEAN]

Configs == [EntityIds -> Stanzas]

\* a rollback file left by an earlier run
RollbackFiles ==
    { NoFile,
      encode(<< <<"no", " ", "interface", " ", "Loopback1">> >>),
      encode(<< <<"interface", " ", "Loopback2">>, <<"description", " ", "old">> >>) }

\* delete_empty = args.delete_empty_loopbacks and not args.keep_empty_loopbacks;
\* --delete-empty-loopbacks is store_true with default True
delete_empty == ~args.keep_empty_loopbacks

Sent(kind, what) == [kind |-> kind, what |-> what]

Kinds(k) == {i \in 1..Len(devlog) : devlog[i].kind = k}

----------------------------------------------------------------------------
(* main(): the with-block and the decisions between the steps *)

ExitOnlyOnCompletion(how) == IF how = "completed" THEN "closed" ELSE "open"

\* "with ConnectHandler(**device) as conn": the session when the block is
\* left; how is "completed", "return" or "raise"
ExitWith(how) == "closed"

DryRunIgnored(a) == "apply"

\* after the rollback file is written: "if args.dry_run: return"
AfterRollbackGenerated(a) == IF a.dry_run THEN "done" ELSE "apply"

\* after the backup: apply-rollback applies at once; the plan path probes
\* first when --generate-rollback is given
AfterBackup(a) ==
    IF a.apply_rollback THEN "apply"
    ELSE IF a.generate_rollback THEN "probe" ELSE "apply"

\* "Build targets: single or CSV"
BuildTargetPairs(a, rs) ==
    IF a.csv THEN parse_csv_pairs(rs)
    ELSE IF rs[1].loopback = <<>> \/ rs[1].description = <<>> THEN Raised
    ELSE LET lb == normalize_loopback(rs[1].loopback) IN
         IF lb.ok THEN Returned(<< <<lb.value, rs[1].description>> >>) ELSE Raised

InsideWith == {"read_running", "backup", "probe", "synth", "apply", "commit",
               "commit_final", "read_after"}

----------------------------------------------------------------------------
(* main(): one run *)

Idle ==
    /\ target_pairs = <<>> /\ planned_cmds = <<>> /\ before_states = <<>>
    /\ rb_cmds = <<>> /\ cmds = <<>> /\ text = <<>> /\ snapshot = Absent
    /\ devlog = <<>> /\ session = "closed"

Init ==
    /\ args \in Args
    /\ rows \in (IF args.csv THEN SeqsUpTo(RawRows, MaxBatch)
                 ELSE {<<r>> : r \in SingleRows})
    /\ file \in (IF args.apply_rollback THEN RollbackFiles ELSE {NoFile})
    /\ \E cfg \in Configs :
          /\ device = [running |-> cfg, candidate |-> cfg]
          /\ pre_device = cfg
    /\ pc = "start"
    /\ Idle

\* --apply-rollback: load_device_from_env, _read_commands_from_file, the
\* dry-run return
LoadRollback ==
    /\ pc = "start" /\ args.apply_rollback
    /\ IF file = NoFile
       THEN /\ pc' = "error"
            /\ cmds' = cmds
       ELSE /\ cmds' = decode(file)
            /\ pc' = IF args.dry_run THEN "done" ELSE "connect"
    /\ UNCHANGED <<args, rows, session, device, devlog, target_pairs, planned_cmds,
                   before_states, rb_cmds, file, text, snapshot, pre_device>>

\* targets, planned commands, the preview-only return
BuildTargets ==
    /\ pc = "start" /\ ~args.apply_rollback
    /\ LET r == BuildTargetPairs(args, rows) IN
       IF ~r.ok
       THEN /\ pc' = "error"
            /\ UNCHANGED <<target_pairs, planned_cmds>>
       ELSE /\ target_pairs' = r.value
            /\ planned_cmds' = build_commands_bulk(r.value)
            /\ pc' = IF args.dry_run /\ ~args.generate_rollback
                     THEN "done" ELSE "load_device"
    /\ UNCHANGED <<args, rows, session, device, devlog, before_states, rb_cmds,
                   cmds, file, text, snapshot, pre_device>>

\* load_device_from_env on the plan path: SystemExit when the environment
\* lacks a credential
LoadDevice ==
    /\ pc = "load_device"
    /\ \E missing \in BOOLEAN : pc' = IF missing THEN "error" ELSE "connect"
    /\ UNCHANGED <<args, rows, session, device, devlog, target_pairs, planned_cmds,
                   before_states, rb_cmds, cmds, file, text, snapshot, pre_device>>

\* ConnectHandler(**device).__enter__
Connect ==
    /\ pc = "connect"
    /\ session' = "open"
    /\ devlog' = Append(devlog, Sent("connect", ""))
    /\ pc' = "read_running"
    /\ UNCHANGED <<args, rows, device, target_pairs, planned_cmds, before_states,
                   rb_cmds, cmds, file, text, snapshot, pre_device>>

\* before = read_running(conn)
ReadRunning ==
    /\ pc = "read_running"
    /\ devlog' = Append(devlog, Sent("query", "show running-config"))
    /\ pc' = "backup"
    /\ UNCHANGED <<args, rows, session, device, target_pairs, planned_cmds,
                   before_states, rb_cmds, cmds, file, text, snapshot, pre_device>>

\* backup_running(before, host): writes under backups/
Backup ==
    /\ pc = "backup"
    /\ pc' = AfterBackup(args)
    /\ UNCHANGED <<args, rows, session, device, devlog, target_pairs, planned_cmds,
                   before_states, rb_cmds, cmds, file, text, snapshot, pre_device>>

ProbeIndex == Cardinality(Kinds("probe")) + 1

ProbeAndApplyEach ==
    /\ pc = "probe"
    /\ LET lb == target_pairs[ProbeIndex][1] IN
       /\ text' = ShowInterface(device.running, lb)
       /\ snapshot' = get_interface_state(text')
       /\ before_states' = DictSet(before_states, lb, snapshot')
       /\ devlog' = devlog \o <<Sent("probe", lb), Sent("config", lb)>>
       /\ pc' = IF ProbeIndex = Len(target_pairs) THEN "synth" ELSE "probe"
    /\ UNCHANGED <<args, rows, session, device, target_pairs, planned_cmds, rb_cmds,
                   cmds, file, pre_device>>

\* one turn of "for lb, _desc in target_pairs: before_states[lb] = ..."
Probe ==
    /\ pc = "probe"
    /\ LET lb == target_pairs[ProbeIndex][1] IN
       /\ text' = ShowInterface(device.running, lb)
       /\ snapshot' = get_interface_state(text')
       /\ before_states' = DictSet(before_states, lb, snapshot')
       /\ devlog' = Append(devlog, Sent("probe", lb))
       /\ pc' = IF ProbeIndex = Len(target_pairs) THEN "synth" ELSE "probe"
    /\ UNCHANGED <<args, rows, session, device, target_pairs, planned_cmds, rb_cmds,
                   cmds, file, pre_device>>

\* generate_rollback_for_pairs, _save_commands_to_file, the dry-run return
Synthesize ==
    /\ pc = "synth"
    /\ rb_cmds' = generate_rollback_for_pairs(before_states, target_pairs, delete_empty)
    /\ file' = encode(rb_cmds')
    /\ pc' = AfterRollbackGenerated(args)
    /\ IF pc' = "done"
       THEN /\ session' = ExitWith("return")
            /\ devlog' = IF session' = "closed"
                         THEN Append(devlog, Sent("disconnect", "")) ELSE devlog
       ELSE UNCHANGED <<session, devlog>>
    /\ UNCHANGED <<args, rows, device, target_pairs, planned_cmds, before_states,
                   cmds, text, snapshot, pre_device>>

\* apply_and_commit: resp = conn.send_config_set(cmds)
Apply ==
    /\ pc = "apply"
    /\ LET batch == IF args.apply_rollback THEN cmds ELSE planned_cmds IN
       /\ device' = [device EXCEPT !.candidate = send_config_set(device.running, batch)]
       /\ devlog' = Append(devlog, Sent("config", ""))
    /\ pc' = "commit"
    /\ UNCHANGED <<args, rows, session, target_pairs, planned_cmds, before_states,
                   rb_cmds, cmds, file, text, snapshot, pre_device>>

\* apply_and_commit: "commit confirmed <seconds>" or "commit"
Commit ==
    /\ pc = "commit"
    /\ device' = [device EXCEPT !.running = device.candidate]
    /\ devlog' = Append(devlog, Sent("commit",
                     IF args.commit_confirmed THEN "commit confirmed" ELSE "commit"))
    /\ pc' = IF args.commit_confirmed THEN "commit_final" ELSE "read_after"
    /\ UNCHANGED <<args, rows, session, target_pairs, planned_cmds, before_states,
                   rb_cmds, cmds, file, text, snapshot, pre_device>>

\* apply_and_commit: the final "commit" after "commit confirmed"
CommitFinal ==
    /\ pc = "commit_final"
    /\ devlog' = Append(devlog, Sent("commit", "commit"))
    /\ pc' = "read_after"
    /\ UNCHANGED <<args, rows, session, device, target_pairs, planned_cmds,
                   before_states, rb_cmds, cmds, file, text, snapshot, pre_device>>

\* after = read_running(conn); the with-block ends; show_diff
ReadAfter ==
    /\ pc = "read_after"
    /\ session' = ExitWith("completed")
    /\ devlog' = Append(devlog, Sent("query", "show running-config"))
                 \o (IF session' = "closed" THEN <<Sent("disconnect", "")>> ELSE <<>>)
    /\ pc' = "done"
    /\ UNCHANGED <<args, rows, device, target_pairs, planned_cmds, before_states,
                   rb_cmds, cmds, file, text, snapshot, pre_device>>

\* an exception out of ConnectHandler, send_command, send_config_set or a file
\* write: nothing catches it before the entrypoint's handler
Raise ==
    /\ pc \in InsideWith \cup {"connect"}
    /\ IF pc \in InsideWith
       THEN /\ session' = ExitWith("raise")
            /\ devlog' = IF session' = "closed"
                         THEN Append(devlog, Sent("disconnect", "")) ELSE devlog
       ELSE UNCHANGED <<session, devlog>>
    /\ pc' = "error"
    /\ UNCHANGED <<args, rows, device, target_pairs, planned_cmds, before_states,
                   rb_cmds, cmds, file, text, snapshot, pre_device>>

Next ==
    \/ LoadRollback
    \/ BuildTargets
    \/ LoadDevice
    \/ Connect
    \/ ReadRunning
    \/ Backup
    \/ Probe
    \/ Synthesize
    \/ Apply
    \/ Commit
    \/ CommitFinal
    \/ ReadAfter
    \/ Raise

Spec == Init /\ [][Next]_vars

----------------------------------------------------------------------------
(* A change run followed by the run that applies the rollback file it wrote; *)
(* the batch of the change run is one that passes validation                 *)

InitRollback ==
    /\ args \in {a \in Args : a.generate_rollback /\ ~a.dry_run /\ ~a.apply_rollback}
    /\ rows \in {rs \in (IF args.csv THEN SeqsUpTo(RawRows, MaxBatch)
                          ELSE {<<r>> : r \in SingleRows}) :
                    /\ BuildTargetPairs(args, rs).ok
                    /\ \A i \in 1..Len(rs) : Strip(rs[i].description) # <<>>}
    /\ file = NoFile
    /\ \E cfg \in Configs :
          /\ device = [running |-> cfg, candidate |-> cfg]
          /\ pre_device = cfg
    /\ pc = "start"
    /\ Idle

\* python xr_loopback_set.py --apply-rollback <the file the last run wrote>
ApplyRollbackRun ==
    /\ pc = "done" /\ ~args.apply_rollback
    /\ args' = [args EXCEPT !.apply_rollback = TRUE]
    /\ pc' = "start"
    /\ target_pairs' = <<>> /\ planned_cmds' = <<>> /\ before_states' = <<>>
    /\ rb_cmds' = <<>> /\ cmds' = <<>> /\ text' = <<>> /\ snapshot' = Absent
    /\ UNCHANGED <<rows, session, device, devlog, file, pre_device>>

NextRollback == Next \/ ApplyRollbackRun

SpecRollback == InitRollback /\ [][NextRollback]_vars

----------------------------------------------------------------------------
(* generate_rollback_for_pairs on its own *)

SnapshotOf(stanza, lb) ==
    get_interface_state(ShowInterface([e \in EntityIds |-> stanza], lb))

Orders == {o \in [1..Cardinality(EntityIds) -> EntityIds] :
              \A i, j \in DOMAIN o : i # j => o[i] # o[j]}

Dicts ==
    {[i \in DOMAIN o |-> <<o[i], SnapshotOf(cfg[o[i]], o[i])>>] :
        o \in Orders, cfg \in Configs}

Batches == SeqsUpTo(EntityIds \X {<<"new">>}, MaxBatch) \ {<<>>}

NoArgs ==
    [apply_rollback |-> FALSE, csv |-> FALSE, dry_run |-> FALSE,
     generate_rollback |-> FALSE, keep_empty_loopbacks |-> FALSE,
     commit_confirmed |-> FALSE]

NoDevice == [running |-> [e \in EntityIds |-> Absent],
             candidate |-> [e \in EntityIds |-> Absent]]

InitSynth ==
    /\ \E keep \in BOOLEAN : args = [NoArgs EXCEPT !.keep_empty_loopbacks = keep]
    /\ before_states \in Dicts
    /\ target_pairs \in Batches
    /\ pc = "call"
    /\ rows = <<>> /\ file = NoFile /\ device = NoDevice
    /\ pre_device = NoDevice.running
    /\ planned_cmds = <<>> /\ rb_cmds = <<>> /\ cmds = <<>> /\ text = <<>>
    /\ snapshot = Absent /\ devlog = <<>> /\ session = "closed"

SynthCall ==
    /\ pc = "call"
    /\ rb_cmds' = generate_rollback_for_pairs(before_states, target_pairs, delete_empty)
    /\ pc' = "return"
    /\ UNCHANGED <<args, rows, session, device, devlog, target_pairs, planned_cmds,
                   before_states, cmds, file, text, snapshot, pre_device>>

SpecSynth == InitSynth /\ [][SynthCall]_vars

----------------------------------------------------------------------------
(* _save_commands_to_file then _read_commands_from_file *)

CodecCommands ==
    { <<"no", " ", "description">>,
      <<"description", " ", "old", " ">>,
      <<" ", "mtu">>,
      <<" ">>,
      <<>>,
      <<"a", "\n", "b">>,
      <<"a", "\r", "b">> }

InitCodec ==
    /\ rb_cmds \in SeqsUpTo(CodecCommands, MaxCmds)
    /\ pc = "call"
    /\ args = NoArgs /\ rows = <<>> /\ file = NoFile /\ device = NoDevice
    /\ pre_device = NoDevice.running
    /\ target_pairs = <<>> /\ planned_cmds = <<>> /\ before_states = <<>>
    /\ cmds = <<>> /\ text = <<>> /\ snapshot = Absent /\ devlog = <<>>
    /\ session = "closed"

SaveCommands ==
    /\ pc = "call"
    /\ file' = encode(rb_cmds)
    /\ pc' = "saved"
    /\ UNCHANGED <<args, rows, session, device, devlog, target_pairs, planned_cmds,
                   before_states, rb_cmds, cmds, text, snapshot, pre_device>>

ReadCommands ==
    /\ pc = "saved"
    /\ cmds' = decode(file)
    /\ pc' = "return"
    /\ UNCHANGED <<args, rows, session, device, devlog, target_pairs, planned_cmds,
                   before_states, rb_cmds, file, text, snapshot, pre_device>>

NextCodec == SaveCommands \/ ReadCommands

SpecCodec == InitCodec /\ [][NextCodec]_vars

----------------------------------------------------------------------------
(* get_interface_state on any answer of the router *)

SubLineChoices ==
    { <<" ", "description", " ", "old">>,
      <<" ", "description", " ", "new", " ">>,
      <<" ", "mtu", " ", "9000">>,
      <<" ">> }

Headers ==
    { <<"interface", " ", "Loopback1">>,
      <<"%", " ", "No such configuration item(s)">> }

Answers ==
    {Join(<<"\n">>, <<h>> \o sub) \o <<"\n">> :
        h \in Headers, sub \in SeqsUpTo(SubLineChoices, MaxSubLines)}

InitProbe ==
    /\ text \in Answers
    /\ pc = "call"
    /\ args = NoArgs /\ rows = <<>> /\ file = NoFile /\ device = NoDevice
    /\ pre_device = NoDevice.running
    /\ target_pairs = <<>> /\ planned_cmds = <<>> /\ before_states = <<>>
    /\ rb_cmds = <<>> /\ cmds = <<>> /\ snapshot = Absent /\ devlog = <<>>
    /\ session = "closed"

ProbeCall ==
    /\ pc = "call"
    /\ snapshot' = get_interface_state(text)
    /\ pc' = "return"
    /\ UNCHANGED <<args, rows, session, device, devlog, target_pairs, planned_cmds,
                   before_states, rb_cmds, cmds, file, text, pre_device>>

SpecProbe == InitProbe /\ [][ProbeCall]_vars

----------------------------------------------------------------------------
(* Properties *)

Targets == {r[1] : r \in {BuildTargetPairs(args, rows).value[i] :
                             i \in 1..Len(BuildTargetPairs(args, rows).value)}}

\* the change run and then the rollback run both ran to completion
RolledBack ==
    /\ pc = "done" /\ args.apply_rollback
    /\ Cardinality(Kinds("disconnect")) = 2
    /\ Cardinality(Kinds("commit")) >= 2

\* C1. Rollback exactness: once the targeted interfaces were probed, the
\* planned commands applied and the generated rollback applied, every
\* targeted interface is configured as it was before the change: absent again
\* if it was absent, present again with the same description and the same
\* other sub-commands if it was present.
RollbackExact ==
    RolledBack => \A lb \in Targets : device.running[lb] = pre_device[lb]

\* C2. Session release: a run that has ended, by completion, by the dry-run
\* return after rollback generation or by a failure while the session was
\* open, does not hold the session.
SessionReleased == pc \in {"done", "error"} => session = "closed"

SessionReleasedAfterFailure ==
    /\ pc = "error" /\ session = "closed"
    /\ Kinds("connect") # {} /\ Kinds("config") # {}

\* C3. Dry-run makes no device changes: in a run started with --dry-run no
\* configuration batch and no commit is sent, whatever the other flags; only
\* the connection, read-only queries and the disconnection reach the router.
DryRunSendsNoChange ==
    args.dry_run =>
        \A i \in 1..Len(devlog) :
            devlog[i].kind \in {"connect", "query", "probe", "disconnect"}

DryRunProbedOnly ==
    /\ args.dry_run /\ pc = "done"
    /\ Kinds("probe") # {} /\ file # NoFile

----------------------------------------------------------------------------
(* Properties of the rollback plan: its blocks, cut before every command     *)
(* that opens or destroys an interface                                       *)

open(lb) == <<"interface", " ", lb>>
destroy(lb) == <<"no", " ", "interface", " ", lb>>
clear == <<"no", " ", "description">>
set(value) == <<"description", " ">> \o value

StartsBlock(c) == \E lb \in EntityIds : c \in {open(lb), destroy(lb)}

RECURSIVE BlocksFrom(_, _)
BlocksFrom(plan, cur) ==
    IF plan = <<>> THEN (IF cur = <<>> THEN <<>> ELSE <<cur>>)
    ELSE IF StartsBlock(Head(plan)) /\ cur # <<>>
         THEN <<cur>> \o BlocksFrom(Tail(plan), <<Head(plan)>>)
    ELSE BlocksFrom(Tail(plan), Append(cur, Head(plan)))

Blocks == BlocksFrom(rb_cmds, <<>>)

Before(i) == DictGet(before_states, target_pairs[i][1])

DestroyCase(i) ==
    \/ ~Before(i).exists
    \/ delete_empty /\ is_empty_loopback(Before(i).lines)

\* C4. Destroy case: the synthesizer emits for a change exactly one command,
\* "no interface <id>", if and only if the snapshot has exists = false
\* (whatever the flag) or the flag is set and the sub-lines are trivial; no
\* open, set or clear command is then emitted for that change.
DestroyCaseOfSynthesizer ==
    pc = "return" =>
        /\ Len(Blocks) = Len(target_pairs)
        /\ \A i \in 1..Len(target_pairs) :
              /\ Len(Blocks[i]) = 1 <=> DestroyCase(i)
              /\ Blocks[i] = <<destroy(target_pairs[i][1])>> <=> DestroyCase(i)

DestroyedTrivialAndAbsent ==
    /\ pc = "return"
    /\ \E i \in 1..Len(target_pairs) :
          /\ Before(i).exists /\ Before(i).description # None /\ delete_empty
          /\ Blocks[i] = <<destroy(target_pairs[i][1])>>
    /\ \E i \in 1..Len(target_pairs) : ~Before(i).exists

Reordered(d) ==
    {[i \in DOMAIN d |-> d[o[i]]] :
        o \in {f \in [DOMAIN d -> DOMAIN d] : \A i, j \in DOMAIN d : i # j => f[i] # f[j]}}

\* C6. Batch ordering: the plan is one block per change, in the order of the
\* batch (also when an interface appears twice), and is the same plan
\* whatever the order in which the snapshots were put in the map.
BatchOrdering ==
    pc = "return" =>
        /\ Len(Blocks) = Len(target_pairs)
        /\ \A i \in 1..Len(target_pairs) :
              Blocks[i][1] \in {open(target_pairs[i][1]), destroy(target_pairs[i][1])}
        /\ \A d \in Reordered(before_states) :
              generate_rollback_for_pairs(d, target_pairs, delete_empty) = rb_cmds

BatchAgainstMapOrder ==
    /\ pc = "return"
    /\ Len(target_pairs) >= 2
    /\ target_pairs[1][1] # target_pairs[2][1]
    /\ before_states[1][1] = target_pairs[2][1]
    /\ Len(Blocks[1]) # Len(Blocks[2])

----------------------------------------------------------------------------
(* Properties of the command file *)

HasLineTerminator(c) == \E i \in 1..Len(c) : c[i] \in {"\n", "\r"}

SingleLine(c) == c # <<>> /\ ~HasLineTerminator(c)

\* C7 as claimed. Command-file round trip: for any sequence of non-empty
\* commands without a line terminator, reading back what was saved yields the
\* same sequence.
RoundTripOfSingleLines ==
    (pc = "return" /\ \A i \in 1..Len(rb_cmds) : SingleLine(rb_cmds[i]))
        => cmds = rb_cmds

\* C7, amended. For any sequence of commands that each hold a character that
\* is not white space and no line terminator, reading back what was saved
\* yields the same sequence: same length, same order, same text.
RoundTripOfNonBlankLines ==
    (pc = "return"
       /\ \A i \in 1..Len(rb_cmds) :
             SingleLine(rb_cmds[i]) /\ Strip(rb_cmds[i]) # <<>>)
        => cmds = rb_cmds

RoundTripKeptSpaces ==
    /\ pc = "return" /\ Len(rb_cmds) >= 2 /\ cmds = rb_cmds
    /\ rb_cmds[1] # rb_cmds[2]
    /\ \E i \in 1..Len(rb_cmds) : Strip(rb_cmds[i]) # rb_cmds[i]

----------------------------------------------------------------------------
(* Properties of the validation and of the order of probes and changes *)

RowInvalid(r) == ~normalize_loopback(r.loopback).ok \/ Strip(r.description) = <<>>

BadCsv == args.csv /\ (rows = <<>> \/ \E i \in 1..Len(rows) : RowInvalid(rows[i]))

NoDeviceInteraction == devlog = <<>> /\ session = "closed"

\* C8 as claimed. All-or-nothing validation: with --csv, a row that does not
\* normalize or has an empty description, or no row at all, means no session
\* is opened, no query sent and no command applied.
BadCsvNeverReachesDevice == BadCsv => NoDeviceInteraction

\* C8, amended. With --csv and without --apply-rollback, a row that does not
\* normalize or has an empty description, or no row at all, makes the run
\* fail before any device interaction, also when earlier rows were valid.
BadCsvFailsBeforeDevice ==
    (BadCsv /\ ~args.apply_rollback) =>
        /\ NoDeviceInteraction
        /\ pc \in {"start", "error"}

BadRowAfterGoodRow ==
    /\ BadCsv /\ ~args.apply_rollback /\ pc = "error"
    /\ Len(rows) = 2 /\ ~RowInvalid(rows[1]) /\ RowInvalid(rows[2])

ProbedInOrder ==
    LET ps == {i \in 1..Len(devlog) : devlog[i].kind = "probe"} IN
    /\ Cardinality(ps) = Len(target_pairs)
    /\ \A i \in ps :
          devlog[i].what = target_pairs[Cardinality({j \in ps : j <= i})][1]

\* C9. Probes precede changes: no probe is sent after a configuration batch
\* or a commit, and when the batch of a run that generates a rollback is
\* applied, every interface of the batch has been probed, in batch order.
ProbesPrecedeChanges ==
    /\ \A i, j \in 1..Len(devlog) :
          (devlog[i].kind \in {"config", "commit"} /\ devlog[j].kind = "probe")
              => j < i
    /\ (Kinds("config") # {} /\ args.generate_rollback /\ ~args.apply_rollback)
          => ProbedInOrder

ChangedAfterTwoProbes ==
    /\ Kinds("commit") # {}
    /\ Cardinality(Kinds("probe")) >= 2
    /\ \E i, j \in Kinds("probe") : devlog[i].what # devlog[j].what

----------------------------------------------------------------------------
(* Properties of the probe *)

DescriptionLines ==
    {i \in 1..Len(snapshot.lines) :
        StartsWith(snapshot.lines[i], <<"description", " ">>)}

Remainder(i) == Strip(SubSeq(snapshot.lines[i], 3, Len(snapshot.lines[i])))

Min(S) == CHOOSE x \in S : \A y \in S : x <= y
Max(S) == CHOOSE x \in S : \A y \in S : x >= y

====
